---- MODULE Spec2Model ----
(***************************************************************************)
(* Model of lab3/push_button_demo.cpp: the WrappedCounter class, main and  *)
(* the polling loop run_button_demo.  The board access functions of        *)
(* prelab/prelab_fpga.h (Initialize, Finalize, PushButtonGet,              *)
(* ReadAllSwitches, WriteAllLeds) are modelled from their documented       *)
(* contracts.                                                              *)
(*                                                                         *)
(* Integer widths are scaled down so that the value sets can be            *)
(* enumerated: a Register has RegisterBits bits (32 in the program) and a  *)
(* Count one more (64 in the program); LED_COUNT < RegisterBits as on the  *)
(* board.  All arithmetic is done modulo the width of its type.            *)
(***************************************************************************)
EXTENDS Integers, Sequences, FiniteSets, TLC

\* Number of LEDs of the board (prelab_fpga.h); scaled down.
LED_COUNT == 2

\* Width of a device register, posix/de1soc `using Register = std::uint32_t`; scaled down.
RegisterBits == 4

\* Width of WrappedCounter::Count (std::uint64_t): strictly wider than a Register.
CountBits == RegisterBits + 1

RECURSIVE Pow2(_)
Pow2(n) == IF n = 0 THEN 1 ELSE 2 * Pow2(n - 1)

RegisterMod == Pow2(RegisterBits)
CountMod == Pow2(CountBits)

RegisterValues == 0 .. (RegisterMod - 1)
CountValues == 0 .. (CountMod - 1)

\* constexpr Register SWITCH_EXIT_SENTINEL = 0;
SWITCH_EXIT_SENTINEL == 0

\* enum class PushButton, as used by the switch of run_button_demo.
SingleButtons == <<"Button0", "Button1", "Button2", "Button3">>
PushButton == {"None", "Multiple"} \cup {SingleButtons[i] : i \in 1 .. Len(SingleButtons)}

\* The button lines of the board occupy the low bits of the button register.
ButtonPatterns == 0 .. (Pow2(Len(SingleButtons)) - 1)

VARIABLES
    pc,               \* position of the program
    init_calls,       \* number of calls of Initialize so far
    fin_calls,        \* number of calls of Finalize so far
    mapped,           \* whether the physical memory mapping is currently held
    m_max,            \* WrappedCounter::m_max
    m_couter,         \* WrappedCounter::m_couter
    previous_button,  \* run_button_demo: previous_button
    run_demo,         \* run_button_demo: run_demo
    button_press,     \* run_button_demo: button_press of the current (or last) iteration
    switch_state,     \* run_button_demo: switch_state (NoSwitch outside its scope)
    sw_reg,           \* the board's switch register
    led_reg,          \* the board's LED register (NoLed until first written)
    io_log,           \* the register accesses of the current iteration, in order
    last_poll,        \* the decoded button read of the previous iteration
    v_gate,           \* the counter value when the current iteration passed the gate
    h_pair,           \* counter harness: the last operation, or pair of operations
    h_before,         \* counter harness: the value before h_pair, or func's result in apply
    h_run,            \* counter harness: number of increments in a row
    h_start,          \* counter harness: the value when that run of increments began
    key_reg,          \* decoder harness: the button register pattern last decoded
    rd_offset,        \* register harness: the offset of the last ReadRegister call
    rd_value          \* register harness: what that call returned

progVars == <<pc, init_calls, fin_calls, mapped, m_max, m_couter, previous_button,
              run_demo, button_press, switch_state, sw_reg, led_reg, io_log,
              last_poll, v_gate>>
counterVars == <<h_pair, h_before, h_run, h_start>>
deviceVars == <<key_reg, rd_offset, rd_value>>
harnessVars == <<counterVars, deviceVars>>
vars == <<progVars, harnessVars>>

\* Markers for values that do not exist (yet).
NoSwitch == RegisterMod
NoLed == RegisterMod
NoPoll == "NoPoll"
NoValue == CountMod
NoOffset == 0 - 1

----------------------------------------------------------------------------
(* WrappedCounter *)

\* count >> 1u and count << 1u on a Count.
ShiftRight(count) == count \div 2
ShiftLeft(count) == (count * 2) % CountMod

\* m_max + 1 as computed in Count arithmetic.
Modulus(max) == (max + 1) % CountMod

\* The outcome of a division by zero: the behaviour is undefined, so the
\* counter may end with any Count value, or the process may trap.
Trap == 0 - 1

\* apply without the modulo: m_couter = new_counter.
Apply_NoWrap(new_counter, max) == {new_counter}

\* apply: m_couter = new_counter % (m_max + 1), the possible results.
Apply(new_counter, max) ==
    IF Modulus(max) = 0
    THEN CountValues \cup {Trap}
    ELSE {new_counter % Modulus(max)}

\* operator++ without the wrap at m_max.
Increment_NoWrap(count, max) == (count + 1) % CountMod

\* operator++ wrapping one step early.
Increment_EarlyWrap(count, max) == IF count + 1 >= max THEN 0 ELSE count + 1

\* operator++ : m_couter == m_max ? 0 : m_couter + 1
Increment(count, max) == IF count = max THEN 0 ELSE (count + 1) % CountMod

\* operator-- stopping at 0 instead of wrapping to m_max.
Decrement_Saturating(count, max) == IF count = 0 THEN 0 ELSE count - 1

\* operator-- : m_couter == 0 ? m_max : m_couter - 1
Decrement(count, max) == IF count = 0 THEN max ELSE count - 1

\* static_cast<Register>(counter)
ToRegister(count) == count % RegisterMod

----------------------------------------------------------------------------
(* prelab_fpga.h *)

RECURSIVE PopCount(_)
PopCount(raw) == IF raw = 0 THEN 0 ELSE (raw % 2) + PopCount(raw \div 2)

RECURSIVE BitPosition(_)
BitPosition(raw) == IF raw % 2 = 1 THEN 0 ELSE 1 + BitPosition(raw \div 2)

\* A decoder that looks at the lowest pressed line only.
PushButtonGet_LowestBit(raw) ==
    IF PopCount(raw) = 0 THEN "None" ELSE SingleButtons[BitPosition(raw) + 1]

\* PushButtonGet: decode the button register.
PushButtonGet(raw) ==
    IF PopCount(raw) = 0 THEN "None"
    ELSE IF PopCount(raw) = 1 THEN SingleButtons[BitPosition(raw) + 1]
    ELSE "Multiple"

\* The register patterns the decoder is tried on: the button lines and one
\* line above them.
KeyPatterns == 0 .. (Pow2(Len(SingleButtons) + 1) - 1)

\* PushButtonGet on any register pattern.  The contract names no event for a
\* single line above the button lines: any event may come back.
PushButtonGetResults(raw) ==
    IF PopCount(raw) = 1 /\ BitPosition(raw) >= Len(SingleButtons)
    THEN PushButton
    ELSE {PushButtonGet(raw)}

\* ReadAllSwitches: the value of the switch register.
ReadAllSwitches(reg) == reg

----------------------------------------------------------------------------
(* main and run_button_demo *)

DeviceIdle ==
    /\ key_reg = 0
    /\ rd_offset = NoOffset
    /\ rd_value = 0

HarnessIdle ==
    /\ h_pair = "none"
    /\ h_before = NoValue
    /\ h_run = 0
    /\ h_start = NoValue
    /\ DeviceIdle

Init ==
    /\ pc = "main"
    /\ init_calls = 0
    /\ fin_calls = 0
    /\ mapped = FALSE
    /\ m_max = NoValue
    /\ m_couter = NoValue
    /\ previous_button = "None"
    /\ run_demo = TRUE
    /\ button_press = NoPoll
    /\ switch_state = NoSwitch
    /\ sw_reg \in RegisterValues
    /\ led_reg = NoLed
    /\ io_log = << >>
    /\ last_poll = NoPoll
    /\ v_gate = NoValue
    /\ HarnessIdle

\* auto[virtual_base, fd] = Initialize();
Initialize ==
    /\ pc = "main"
    /\ init_calls' = init_calls + 1
    /\ mapped' = TRUE
    /\ pc' = "call"
    /\ UNCHANGED <<fin_calls, m_max, m_couter, previous_button, run_demo, button_press,
                   switch_state, sw_reg, led_reg, io_log, last_poll, v_gate, harnessVars>>

\* The counter's maximum in run_button_demo: (1u << LED_COUNT) - 1, an unsigned int.
LedCounterMax == (Pow2(LED_COUNT) - 1) % RegisterMod

\* run_button_demo writing the LEDs once before its loop.
EnterDemo_WritesLeds ==
    /\ pc = "call"
    /\ m_max' = LedCounterMax
    /\ m_couter' = 0
    /\ previous_button' = "None"
    /\ run_demo' = TRUE
    /\ led_reg' = 0
    /\ pc' = "while"
    /\ UNCHANGED <<init_calls, fin_calls, mapped, button_press, switch_state, sw_reg,
                   io_log, last_poll, v_gate, harnessVars>>

\* run_button_demo, up to the loop: the locals are constructed.
EnterDemo ==
    /\ pc = "call"
    /\ m_max' = LedCounterMax
    /\ m_couter' = 0
    /\ previous_button' = "None"
    /\ run_demo' = TRUE
    /\ pc' = "while"
    /\ UNCHANGED <<init_calls, fin_calls, mapped, button_press, switch_state, sw_reg,
                   led_reg, io_log, last_poll, v_gate, harnessVars>>

\* while (true): the loop test ignoring run_demo.
WhileTest_Forever ==
    /\ pc = "while"
    /\ pc' = "read"
    /\ io_log' = << >>
    /\ UNCHANGED <<init_calls, fin_calls, mapped, m_max, m_couter, previous_button,
                   run_demo, button_press, switch_state, sw_reg, led_reg, last_poll,
                   v_gate, harnessVars>>

\* while (run_demo)
WhileTest ==
    /\ pc = "while"
    /\ pc' = IF run_demo THEN "read" ELSE "returned"
    /\ io_log' = << >>
    /\ UNCHANGED <<init_calls, fin_calls, mapped, m_max, m_couter, previous_button,
                   run_demo, button_press, switch_state, sw_reg, led_reg, last_poll,
                   v_gate, harnessVars>>

\* const auto button_press = PushButtonGet(virtual_base);
ReadButtons ==
    /\ pc = "read"
    /\ \E raw \in ButtonPatterns : button_press' = PushButtonGet(raw)
    /\ last_poll' = button_press
    /\ io_log' = Append(io_log, "buttons")
    /\ pc' = "gate"
    /\ UNCHANGED <<init_calls, fin_calls, mapped, m_max, m_couter, previous_button,
                   run_demo, switch_state, sw_reg, led_reg, v_gate, harnessVars>>

\* The gate without the wait for the release of a chord.
wait_for_unpress_Never(previous, press) == FALSE

\* The gate waiting for a release after any button, not only after a chord.
wait_for_unpress_AnyButton(previous, press) == previous # "None" /\ press # "None"

\* const bool wait_for_unpress = previous_button == PushButton::Multiple && ...
wait_for_unpress(previous, press) == previous = "Multiple" /\ press # "None"

\* The gate without the check for an unchanged button state.
no_button_change_Never(previous, press) == FALSE

\* const bool no_button_change = button_press == previous_button;
no_button_change(previous, press) == press = previous

\* if (wait_for_unpress || no_button_change)
SkipIteration(previous, press) ==
    wait_for_unpress(previous, press) \/ no_button_change(previous, press)

\* The gate recording the button state of a skipped iteration.
Gate_SkipUpdatesPrevious ==
    /\ pc = "gate"
    /\ IF SkipIteration(previous_button, button_press)
       THEN pc' = "while" /\ v_gate' = v_gate /\ previous_button' = button_press
       ELSE pc' = "dispatch" /\ v_gate' = m_couter /\ previous_button' = previous_button
    /\ UNCHANGED <<init_calls, fin_calls, mapped, m_max, m_couter, run_demo,
                   button_press, switch_state, sw_reg, led_reg, io_log, last_poll,
                   harnessVars>>

\* The debounce gate, and the sleep and continue of a skipped iteration.
Gate ==
    /\ pc = "gate"
    /\ IF SkipIteration(previous_button, button_press)
       THEN pc' = "while" /\ v_gate' = v_gate
       ELSE pc' = "dispatch" /\ v_gate' = m_couter
    /\ UNCHANGED <<init_calls, fin_calls, mapped, m_max, m_couter, previous_button,
                   run_demo, button_press, switch_state, sw_reg, led_reg, io_log,
                   last_poll, harnessVars>>

\* The new counter value of the cases None, Button0 .. Button3 of the switch.
SingleButtonResults(press, count, max) ==
    CASE press = "None" -> {count}
      [] press = "Button0" -> {Increment(count, max)}
      [] press = "Button1" -> {Decrement(count, max)}
      [] press = "Button2" -> Apply(ShiftRight(count), max)
      [] press = "Button3" -> Apply(ShiftLeft(count), max)

\* switch (button_press): the cases None and Button0 .. Button3.
DispatchButton ==
    /\ pc = "dispatch"
    /\ button_press # "Multiple"
    /\ \E r \in SingleButtonResults(button_press, m_couter, m_max) :
         IF r = Trap
         THEN pc' = "fault" /\ m_couter' = m_couter
         ELSE pc' = "write" /\ m_couter' = r
    /\ UNCHANGED <<init_calls, fin_calls, mapped, m_max, previous_button, run_demo,
                   button_press, switch_state, sw_reg, led_reg, io_log, last_poll,
                   v_gate, harnessVars>>

\* case PushButton::Multiple: const auto switch_state = ReadAllSwitches(virtual_base);
ReadSwitches ==
    /\ pc = "dispatch"
    /\ button_press = "Multiple"
    /\ switch_state' = ReadAllSwitches(sw_reg)
    /\ io_log' = Append(io_log, "switches")
    /\ pc' = "load"
    /\ UNCHANGED <<init_calls, fin_calls, mapped, m_max, m_couter, previous_button,
                   run_demo, button_press, sw_reg, led_reg, last_poll, v_gate,
                   harnessVars>>

\* The exit check left out.
IsExitState_Never(state) == FALSE

\* The exit check made on the wrapped value instead of the switch value.
IsExitState_Wrapped(state) == state % (LedCounterMax + 1) = SWITCH_EXIT_SENTINEL

\* if (switch_state == SWITCH_EXIT_SENTINEL)
IsExitState(state) == state = SWITCH_EXIT_SENTINEL

\* The Multiple case leaving the loop body as soon as it finds the exit state.
LoadSwitches_BreakOnExit ==
    /\ pc = "load"
    /\ \E r \in Apply(switch_state % CountMod, m_max) :
         IF r = Trap
         THEN pc' = "fault" /\ m_couter' = m_couter /\ run_demo' = run_demo
         ELSE /\ pc' = IF IsExitState(switch_state) THEN "while" ELSE "write"
              /\ m_couter' = r
              /\ run_demo' = IF IsExitState(switch_state) THEN FALSE ELSE run_demo
    /\ UNCHANGED <<init_calls, fin_calls, mapped, m_max, previous_button, button_press,
                   switch_state, sw_reg, led_reg, io_log, last_poll, v_gate,
                   harnessVars>>

\* counter.apply([=](auto) { return switch_state; }); and the exit check.
LoadSwitches ==
    /\ pc = "load"
    /\ \E r \in Apply(switch_state % CountMod, m_max) :
         IF r = Trap
         THEN pc' = "fault" /\ m_couter' = m_couter /\ run_demo' = run_demo
         ELSE /\ pc' = "write"
              /\ m_couter' = r
              /\ run_demo' = IF IsExitState(switch_state) THEN FALSE ELSE run_demo
    /\ UNCHANGED <<init_calls, fin_calls, mapped, m_max, previous_button, button_press,
                   switch_state, sw_reg, led_reg, io_log, last_poll, v_gate,
                   harnessVars>>

\* The LED write made with the counter value from before the dispatch.
WriteLeds_BeforeDispatch ==
    /\ pc = "write"
    /\ led_reg' = ToRegister(v_gate)
    /\ io_log' = Append(io_log, "leds")
    /\ pc' = "assign"
    /\ UNCHANGED <<init_calls, fin_calls, mapped, m_max, m_couter, previous_button,
                   run_demo, button_press, switch_state, sw_reg, last_poll, v_gate,
                   harnessVars>>

\* WriteAllLeds(virtual_base, static_cast<Register>(counter));
WriteLeds ==
    /\ pc = "write"
    /\ led_reg' = ToRegister(m_couter)
    /\ io_log' = Append(io_log, "leds")
    /\ pc' = "assign"
    /\ UNCHANGED <<init_calls, fin_calls, mapped, m_max, m_couter, previous_button,
                   run_demo, button_press, switch_state, sw_reg, last_poll, v_gate,
                   harnessVars>>

\* previous_button = button_press;
SetPrevious ==
    /\ pc = "assign"
    /\ previous_button' = button_press
    /\ pc' = "sleep"
    /\ UNCHANGED <<init_calls, fin_calls, mapped, m_max, m_couter, run_demo,
                   button_press, switch_state, sw_reg, led_reg, io_log, last_poll,
                   v_gate, harnessVars>>

\* std::this_thread::sleep_for(REFRESH_PERIOD); the end of the loop body.
Sleep ==
    /\ pc = "sleep"
    /\ switch_state' = NoSwitch
    /\ pc' = "while"
    /\ UNCHANGED <<init_calls, fin_calls, mapped, m_max, m_couter, previous_button,
                   run_demo, button_press, sw_reg, led_reg, io_log, last_poll, v_gate,
                   harnessVars>>

\* main returning without the call of Finalize.
Finalize_Skipped ==
    /\ pc = "returned"
    /\ pc' = "exit"
    /\ UNCHANGED <<init_calls, fin_calls, mapped, m_max, m_couter, previous_button,
                   run_demo, button_press, switch_state, sw_reg, led_reg, io_log,
                   last_poll, v_gate, harnessVars>>

\* Finalize(virtual_base, fd); and the return of main.
Finalize ==
    /\ pc = "returned"
    /\ fin_calls' = fin_calls + 1
    /\ mapped' = FALSE
    /\ pc' = "exit"
    /\ UNCHANGED <<init_calls, m_max, m_couter, previous_button, run_demo, button_press,
                   switch_state, sw_reg, led_reg, io_log, last_poll, v_gate, harnessVars>>

\* The user moves the switches while the program runs.
FlipSwitches ==
    /\ pc \notin {"exit", "fault", "harness"}
    /\ \E s \in RegisterValues \ {sw_reg} : sw_reg' = s
    /\ UNCHANGED <<pc, init_calls, fin_calls, mapped, m_max, m_couter, previous_button,
                   run_demo, button_press, switch_state, led_reg, io_log, last_poll,
                   v_gate, harnessVars>>

\* One step of the program itself.
ProgramStep ==
    \/ Initialize
    \/ EnterDemo
    \/ WhileTest
    \/ ReadButtons
    \/ Gate
    \/ DispatchButton
    \/ ReadSwitches
    \/ LoadSwitches
    \/ WriteLeds
    \/ SetPrevious
    \/ Sleep
    \/ Finalize

Next == ProgramStep \/ FlipSwitches

Spec == Init /\ [][Next]_vars

\* The program is sequential and every statement of it returns.
FairSpec == Spec /\ WF_vars(ProgramStep)

----------------------------------------------------------------------------
(* A WrappedCounter driven by arbitrary calls *)

\* The maxima the counter is constructed with: the small ones, among them the
\* one of run_button_demo, and the two largest a Count can hold.
HarnessMaxima == (0 .. Pow2(LED_COUNT)) \cup {CountMod - 2, CountMod - 1}

\* explicit WrappedCounter(Count max) : m_max{max} {}, with m_couter{0}.
CounterInit ==
    /\ pc = "harness"
    /\ init_calls = 0
    /\ fin_calls = 0
    /\ mapped = FALSE
    /\ m_max \in HarnessMaxima
    /\ m_couter = 0
    /\ previous_button = "None"
    /\ run_demo = TRUE
    /\ button_press = NoPoll
    /\ switch_state = NoSwitch
    /\ sw_reg = 0
    /\ led_reg = NoLed
    /\ io_log = << >>
    /\ last_poll = NoPoll
    /\ v_gate = NoValue
    /\ h_pair = "none"
    /\ h_before = NoValue
    /\ h_run = 0
    /\ h_start = 0
    /\ DeviceIdle

\* ++counter
CallIncrement ==
    /\ pc = "harness"
    /\ h_run <= m_max + 1
    /\ m_couter' = Increment(m_couter, m_max)
    /\ h_run' = h_run + 1
    /\ h_start' = h_start
    /\ IF h_pair = "dec"
       THEN h_pair' = "dec_inc" /\ h_before' = h_before
       ELSE h_pair' = "inc" /\ h_before' = m_couter
    /\ UNCHANGED <<pc, init_calls, fin_calls, mapped, m_max, previous_button, run_demo,
                   button_press, switch_state, sw_reg, led_reg, io_log, last_poll, v_gate,
                   deviceVars>>

\* --counter
CallDecrement ==
    /\ pc = "harness"
    /\ m_couter' = Decrement(m_couter, m_max)
    /\ h_run' = 0
    /\ h_start' = m_couter'
    /\ IF h_pair = "inc"
       THEN h_pair' = "inc_dec" /\ h_before' = h_before
       ELSE h_pair' = "dec" /\ h_before' = m_couter
    /\ UNCHANGED <<pc, init_calls, fin_calls, mapped, m_max, previous_button, run_demo,
                   button_press, switch_state, sw_reg, led_reg, io_log, last_poll, v_gate,
                   deviceVars>>

\* counter.apply(func), func(m_couter) being any Count.
CallApply ==
    /\ pc = "harness"
    /\ \E new_counter \in CountValues :
         /\ h_pair' = "apply"
         /\ h_before' = new_counter
         /\ \E r \in Apply(new_counter, m_max) :
              IF r = Trap
              THEN pc' = "fault" /\ m_couter' = m_couter /\ h_start' = m_couter
              ELSE pc' = pc /\ m_couter' = r /\ h_start' = r
    /\ h_run' = 0
    /\ UNCHANGED <<init_calls, fin_calls, mapped, m_max, previous_button, run_demo,
                   button_press, switch_state, sw_reg, led_reg, io_log, last_poll, v_gate,
                   deviceVars>>

CounterNext == CallIncrement \/ CallDecrement \/ CallApply

CounterSpec == CounterInit /\ [][CounterNext]_vars

\* The program and the counter on its own, side by side.
AllSpec == (Init \/ CounterInit) /\ [][Next \/ CounterNext]_vars

----------------------------------------------------------------------------
(* The input decoder applied to arbitrary register patterns *)

DecoderInit ==
    /\ pc = "decoder"
    /\ init_calls = 0
    /\ fin_calls = 0
    /\ mapped = FALSE
    /\ m_max = NoValue
    /\ m_couter = NoValue
    /\ previous_button = "None"
    /\ run_demo = TRUE
    /\ button_press = NoPoll
    /\ switch_state = NoSwitch
    /\ sw_reg = 0
    /\ led_reg = NoLed
    /\ io_log = << >>
    /\ last_poll = NoPoll
    /\ v_gate = NoValue
    /\ HarnessIdle

\* PushButtonGet(virtual_base) with the button register holding any pattern.
DecodeRegister ==
    /\ pc = "decoder"
    /\ \E raw \in KeyPatterns :
         /\ key_reg' = raw
         /\ button_press' \in PushButtonGetResults(raw)
    /\ last_poll' = button_press
    /\ UNCHANGED <<pc, init_calls, fin_calls, mapped, m_max, m_couter, previous_button,
                   run_demo, switch_state, sw_reg, led_reg, io_log, v_gate, counterVars,
                   rd_offset, rd_value>>

DecoderSpec == DecoderInit /\ [][DecodeRegister]_vars

----------------------------------------------------------------------------
(* DE1SoCfgpa: register reads through the memory mapping *)

\* constexpr static inline std::size_t LW_BRIDGE_SPAN{0x00'00'50'00};
LW_BRIDGE_SPAN == 20480

\* sizeof(Register), Register being std::uint32_t.
RegisterBytes == 4

\* The offsets ReadRegister is called with: a std::size_t, any value.
ReadOffsets ==
    {0, RegisterBytes, 2 * RegisterBytes,
     LW_BRIDGE_SPAN - RegisterBytes, LW_BRIDGE_SPAN - 2, LW_BRIDGE_SPAN - 1,
     LW_BRIDGE_SPAN, LW_BRIDGE_SPAN + RegisterBytes}

\* MemoryMapping::access_memory_unchecked<Register>(offset): the address
\* base + offset, unchecked.  It lies in the mapped window if the whole
\* register does.
MappedAccess(offset) == offset + RegisterBytes <= LW_BRIDGE_SPAN

\* What the dereference of that address yields: a register of the window, or,
\* outside the window, undefined behaviour: any value, or a fault.
Dereference(offset) ==
    IF MappedAccess(offset) THEN RegisterValues ELSE RegisterValues \cup {Trap}

\* DE1SoCfgpa(): the object holds the mapping of the window.
DeviceInit ==
    /\ pc = "device"
    /\ init_calls = 0
    /\ fin_calls = 0
    /\ mapped = TRUE
    /\ m_max = NoValue
    /\ m_couter = NoValue
    /\ previous_button = "None"
    /\ run_demo = TRUE
    /\ button_press = NoPoll
    /\ switch_state = NoSwitch
    /\ sw_reg = 0
    /\ led_reg = NoLed
    /\ io_log = << >>
    /\ last_poll = NoPoll
    /\ v_gate = NoValue
    /\ HarnessIdle

\* Register ReadRegister(std::size_t offset)
ReadRegister ==
    /\ pc = "device"
    /\ \E offset \in ReadOffsets :
         /\ rd_offset' = offset
         /\ \E r \in Dereference(offset) :
              IF r = Trap
              THEN pc' = "fault" /\ rd_value' = rd_value
              ELSE pc' = pc /\ rd_value' = r
    /\ UNCHANGED <<init_calls, fin_calls, mapped, m_max, m_couter, previous_button,
                   run_demo, button_press, switch_state, sw_reg, led_reg, io_log,
                   last_poll, v_gate, counterVars, key_reg>>

DeviceSpec == DeviceInit /\ [][ReadRegister]_vars

----------------------------------------------------------------------------
(* Properties *)

\* Positions of an iteration after it has passed the debounce gate.
Dispatching == {"dispatch", "load", "write", "assign"}

\* Number of accesses of one kind in a log.
IoCount(log, kind) == Cardinality({i \in DOMAIN log : log[i] = kind})

\* The step accesses a register of the given kind.
Accesses(kind) == IoCount(io_log', kind) > IoCount(io_log, kind)

\* C1: the counter value is always in [0, m_max], whatever sequence of
\* increment, decrement and apply(f) calls is made and whatever f returns;
\* so every value written to the LED register is in [0, m_max] too.
C1_RangeInvariant ==
    /\ (pc \notin {"main", "call"} => m_couter \in 0 .. m_max)
    /\ (led_reg # NoLed => led_reg \in 0 .. m_max)

\* The shift-left of Button3 went past m_max, was wrapped, and has been written.
C1_Witness ==
    /\ pc = "assign"
    /\ button_press = "Button3"
    /\ 2 * v_gate > m_max
    /\ led_reg = m_couter

\* C2: while previous_button = Multiple and the buttons do not read None, no
\* step changes the counter, reads the switches, writes the LEDs or changes
\* previous_button.
C2_ChordRelease ==
    [][(previous_button = "Multiple" /\ button_press # "None")
         => /\ m_couter' = m_couter
            /\ led_reg' = led_reg
            /\ previous_button' = "Multiple"
            /\ ~Accesses("switches")
            /\ ~Accesses("leds")]_vars

\* A single button read directly after the chord has been skipped.
C2_Witness ==
    /\ pc = "while"
    /\ io_log = <<"buttons">>
    /\ previous_button = "Multiple"
    /\ last_poll = "Multiple"
    /\ button_press = "Button0"

\* C3: when a poll decodes to the same event as the poll before it, the
\* iteration changes neither the counter nor the LED register and reads no
\* switch: an event is dispatched on the first poll of a run at most.
C3_EdgeTriggered ==
    [][(button_press \in PushButton /\ button_press = last_poll)
         => /\ m_couter' = m_couter
            /\ led_reg' = led_reg
            /\ ~Accesses("switches")
            /\ ~Accesses("leds")]_vars

\* Button0 was dispatched once and its second poll in a row was skipped.
C3_Witness ==
    /\ pc = "while"
    /\ io_log = <<"buttons">>
    /\ previous_button = "Button0"
    /\ last_poll = "Button0"
    /\ button_press = "Button0"
    /\ m_couter = 1

\* An iteration that ends with previous_button as it found it.
IterationEnds == (pc = "while" /\ io_log = <<"buttons">>) \/ pc = "assign"

\* C4 as stated: an iteration that starts with previous_button = Multiple while
\* the switches read 0 sets the terminate flag.
C4_Original ==
    (IterationEnds /\ previous_button = "Multiple" /\ sw_reg = SWITCH_EXIT_SENTINEL)
        => ~run_demo

\* The iteration read the chord, passed the gate and read the switches as 0.
ExitIteration ==
    /\ button_press = "Multiple"
    /\ switch_state = SWITCH_EXIT_SENTINEL

\* C4, amended: in an iteration whose button read decodes to Multiple and passes
\* the debounce gate, and whose switch read returns 0, the terminate flag is
\* set, the LED register is written with 0, and the loop exits without a further
\* button or switch read.
C4_ExitScenario ==
    /\ []((ExitIteration /\ pc \in {"write", "assign", "sleep"})
            => (~run_demo /\ m_couter = 0))
    /\ []((ExitIteration /\ pc \in {"assign", "sleep"})
            => (led_reg = 0 /\ io_log = <<"buttons", "switches", "leds">>))
    /\ [][~run_demo
            => /\ ~Accesses("buttons")
               /\ ~Accesses("switches")
               /\ (pc = "while" => pc' \in {"while", "returned"})]_vars

\* The loop has exited after the exit iteration.
C4_Witness ==
    /\ pc = "returned"
    /\ ~run_demo
    /\ button_press = "Multiple"
    /\ previous_button = "Multiple"
    /\ led_reg = 0

\* C5 as stated: once a poll observes the chord while the switches are all
\* zero, the program eventually exits (the switches being left at zero).
C5_Original ==
    (pc = "gate" /\ button_press = "Multiple" /\ sw_reg = SWITCH_EXIT_SENTINEL)
        ~> (pc = "exit" \/ sw_reg # SWITCH_EXIT_SENTINEL)

\* C5, amended: once an iteration that passed the debounce gate with the chord
\* has read the switches as zero, the loop eventually terminates and the
\* program exits.
C5_ExitLiveness == (pc = "load" /\ ExitIteration) ~> (pc = "exit")

\* The program has exited after a chord, pressed from released buttons, that
\* read the switches as zero.
C5_Witness ==
    /\ pc = "exit"
    /\ button_press = "Multiple"
    /\ last_poll = "None"
    /\ led_reg = 0
    /\ ~run_demo

\* C6: the terminate flag is set by a step if and only if that step is the
\* dispatch of Multiple with the switches read as SWITCH_EXIT_SENTINEL, and the
\* loop ends only with the flag set.
C6_ExitOnlyOnSentinel ==
    /\ [][(run_demo /\ ~run_demo') => (pc = "load" /\ ExitIteration)]_vars
    /\ [][(pc = "load" /\ pc' = "write") => (run_demo' = ~ExitIteration)]_vars
    /\ [](pc \in {"returned", "exit"} => ~run_demo)

\* A non-zero switch value that wraps the counter to 0 has not ended the loop.
C6_Witness ==
    /\ pc = "sleep"
    /\ run_demo
    /\ previous_button = "Multiple"
    /\ m_couter = 0
    /\ led_reg = 0
    /\ switch_state # SWITCH_EXIT_SENTINEL
    /\ switch_state # NoSwitch

\* The counter value the dispatch table gives.
DispatchTable(press, v, max, switches) ==
    CASE press = "None" -> v
      [] press = "Button0" -> (v + 1) % (max + 1)
      [] press = "Button1" -> (v - 1 + (max + 1)) % (max + 1)
      [] press = "Button2" -> v \div 2
      [] press = "Button3" -> (2 * v) % (max + 1)
      [] press = "Multiple" -> switches % (max + 1)

\* C7: after the dispatch of an iteration that passed the gate with counter
\* value v, the counter holds the value the dispatch table gives for the event.
C7_DispatchTable ==
    pc \in {"write", "assign"}
        => m_couter = DispatchTable(button_press, v_gate, m_max, switch_state)

\* A decrement at 0 has wrapped to m_max.
C7_Witness ==
    /\ pc = "write"
    /\ button_press = "Button1"
    /\ v_gate = 0
    /\ m_couter = m_max

\* C8: an increment followed by a decrement, and a decrement followed by an
\* increment, return the counter to the value it had before.
C8_WrapInverses ==
    h_pair \in {"inc_dec", "dec_inc"} => m_couter = h_before

\* A decrement at 0 followed by an increment at m_max.
C8_Witness ==
    /\ h_pair = "dec_inc"
    /\ h_before = 0
    /\ m_max > 0
    /\ m_couter = 0

\* C9: after n increments in a row, 1 <= n <= m_max + 1, the counter is back at
\* the value it started from exactly if n = m_max + 1.
C9_FullCycle ==
    (1 <= h_run /\ h_run <= m_max + 1)
        => ((m_couter = h_start) <=> (h_run = m_max + 1))

\* m_max + 1 increments from a value other than 0 have come round.
C9_Witness ==
    /\ h_run = m_max + 1
    /\ m_max >= 2
    /\ h_start > 0
    /\ m_couter = h_start

\* Positions inside run_button_demo.
InDemo == {"while", "read", "gate", "dispatch", "load", "write", "assign", "sleep"}

\* Positions at which the scope of the control loop has been left.
DemoLeft == {"returned", "fault"}

\* C10: Initialize is called once, before the loop; Finalize is called once,
\* after the loop has returned, on every path that leaves the loop; the mapping
\* is never released twice nor left unreleased.
C10_MappingLifecycle ==
    /\ [](init_calls <= 1 /\ fin_calls <= 1)
    /\ [](pc \in InDemo => (init_calls = 1 /\ fin_calls = 0 /\ mapped))
    /\ [](fin_calls = 1 => (pc = "exit" /\ init_calls = 1 /\ ~mapped))
    /\ [][fin_calls' # fin_calls => pc = "returned"]_vars
    /\ (pc \in DemoLeft) ~> (fin_calls = 1 /\ ~mapped)

\* main has returned after the loop.
C10_Witness ==
    /\ pc = "exit"
    /\ init_calls = 1
    /\ fin_calls = 1
    /\ ~mapped
    /\ ~run_demo

\* The register pattern has been decoded.
Decoded == pc = "decoder" /\ button_press # NoPoll

\* C11 as stated: a pattern with no bit set decodes to None, one with exactly
\* one bit set, at whatever position, to the button of that position, and one
\* with two or more bits set to Multiple.
C11_Original ==
    Decoded =>
        CASE PopCount(key_reg) = 0 -> button_press = "None"
          [] PopCount(key_reg) = 1 ->
                /\ BitPosition(key_reg) < Len(SingleButtons)
                /\ button_press = SingleButtons[BitPosition(key_reg) + 1]
          [] OTHER -> button_press = "Multiple"

\* The events of the patterns that lie within the button lines.
ButtonTable(raw) ==
    CASE raw = 0 -> "None"
      [] raw = 1 -> "Button0"
      [] raw = 2 -> "Button1"
      [] raw = 4 -> "Button2"
      [] raw = 8 -> "Button3"
      [] OTHER -> "Multiple"

\* C11, amended: every register pattern decodes to a ButtonEvent; a pattern
\* whose set bits lie within the four button lines decodes to None if no bit is
\* set, to Button0 .. Button3 by the position of its only bit, and to Multiple
\* if two or more are set; a pattern with two or more bits set decodes to
\* Multiple wherever the bits are.
C11_Decoder ==
    Decoded =>
        /\ button_press \in PushButton
        /\ (key_reg \in ButtonPatterns => button_press = ButtonTable(key_reg))
        /\ (PopCount(key_reg) >= 2 => button_press = "Multiple")

\* The pattern with only the highest button line set has been decoded.
C11_Witness ==
    /\ Decoded
    /\ key_reg = 8
    /\ button_press = "Button3"
    /\ last_poll = "Multiple"

\* C12: every register access through the mapping lies in the mapped window,
\* offset + sizeof(Register) <= span: a ReadRegister call with an offset outside
\* it is rejected or does not occur.
C12_BoundedAccess ==
    rd_offset # NoOffset
        => (0 <= rd_offset /\ rd_offset + RegisterBytes <= LW_BRIDGE_SPAN)

\* The whole log of an iteration that read the switches.
FullLog == <<"buttons", "switches", "leds">>

\* The step accesses no register.
NoAccess == ~Accesses("buttons") /\ ~Accesses("switches") /\ ~Accesses("leds")

\* C13: the iteration that sets the terminate flag reads the buttons, reads the
\* switches, sets the counter (to 0), writes the LED register with it, sets
\* previous_button to Multiple, sleeps and leaves the loop, in this order; no
\* register is accessed after its LED write.
C13_TerminatingOrder ==
    /\ [][(run_demo /\ ~run_demo') => (pc = "load" /\ pc' = "write")]_vars
    /\ []((~run_demo /\ pc = "write")
            => /\ io_log = <<"buttons", "switches">>
               /\ button_press = "Multiple"
               /\ previous_button # "Multiple"
               /\ m_couter = 0)
    /\ []((~run_demo /\ pc = "assign")
            => (io_log = FullLog /\ led_reg = 0 /\ previous_button # "Multiple"))
    /\ []((~run_demo /\ pc = "sleep")
            => (io_log = FullLog /\ led_reg = 0 /\ previous_button = "Multiple"))
    /\ [][~run_demo
            => /\ (pc = "write" => pc' \in {"write", "assign"})
               /\ (pc = "assign" => pc' \in {"assign", "sleep"})
               /\ (pc = "sleep" => pc' \in {"sleep", "while"})
               /\ (pc = "while" => pc' \in {"while", "returned"})
               /\ (pc \in {"assign", "sleep", "while", "returned", "exit"}
                     => (NoAccess /\ led_reg' = led_reg))]_vars

\* The terminating iteration is at its sleep.
C13_Witness ==
    /\ pc = "sleep"
    /\ ~run_demo
    /\ io_log = FullLog
    /\ previous_button = "Multiple"
    /\ last_poll = "Button1"
    /\ led_reg = 0

\* The debounce gate, as the claim states it.
GateHolds ==
    \/ (previous_button = "Multiple" /\ button_press # "None")
    \/ button_press = previous_button

\* C14: an iteration in which the debounce gate holds leaves the counter, the
\* LED register, previous_button and the terminate flag as they are and reads
\* no switch: it goes from the button read straight to the next loop test.
C14_SkipFrame ==
    /\ [][(pc = "gate" /\ GateHolds)
            => /\ pc' \in {"gate", "while"}
               /\ m_couter' = m_couter
               /\ led_reg' = led_reg
               /\ previous_button' = previous_button
               /\ run_demo' = run_demo
               /\ switch_state' = switch_state
               /\ io_log' = io_log]_vars
    /\ []((pc = "while" /\ io_log # << >> /\ io_log # <<"buttons">>)
            => previous_button = button_press)

\* A held Button1 has been skipped after the decrement it caused.
C14_Witness ==
    /\ pc = "while"
    /\ io_log = <<"buttons">>
    /\ previous_button = "Button1"
    /\ button_press = "Button1"
    /\ m_couter = m_max
    /\ led_reg = m_max

\* C15: an iteration that passes the gate writes the LED register once, after
\* the dispatch, with the counter value, and then sets previous_button to the
\* current event; between iterations the LED register, once written, equals the
\* counter, and previous_button changes in no other way.
C15_LedMirrorsCounter ==
    /\ [](IoCount(io_log, "leds") <= 1)
    /\ [][Accesses("leds")
            => (pc = "write" /\ led_reg' = m_couter /\ m_couter' = m_couter)]_vars
    /\ [][led_reg' # led_reg => Accesses("leds")]_vars
    /\ [](pc = "sleep"
            => /\ IoCount(io_log, "leds") = 1
               /\ io_log[Len(io_log)] = "leds"
               /\ previous_button = button_press)
    /\ []((pc \in {"sleep", "while", "read", "gate"} /\ led_reg # NoLed)
            => led_reg = m_couter)
    /\ [][previous_button' # previous_button
            => /\ pc = "assign"
               /\ previous_button' = button_press
               /\ io_log[Len(io_log)] = "leds"]_vars

\* The increment of Button0 is on the LEDs and Button0 is the previous button.
C15_Witness ==
    /\ pc = "sleep"
    /\ io_log = <<"buttons", "leds">>
    /\ button_press = "Button0"
    /\ previous_button = "Button0"
    /\ m_couter = 1
    /\ led_reg = 1

\* C16: apply completes without error for every maximum, the largest Count
\* included, and leaves the value at func's result modulo m_max + 1.
C16_ApplyTotal ==
    /\ pc # "fault"
    /\ (h_pair = "apply" => m_couter = h_before % (m_max + 1))

\* C17: with previous_button a single button or None, a button read that
\* decodes to another event passes the gate at once.
C17_NoReleaseNeeded ==
    [][(pc = "gate" /\ previous_button # "Multiple" /\ button_press # previous_button)
         => pc' \in {"gate", "dispatch"}]_vars

\* A second button was pressed while Button0 was held: the increment was made
\* and the switches are being loaded.
C17_Witness ==
    /\ pc = "write"
    /\ previous_button = "Button0"
    /\ last_poll = "Button0"
    /\ button_press = "Multiple"
    /\ v_gate = 1
    /\ io_log = <<"buttons", "switches">>
    /\ m_couter = switch_state % (m_max + 1)

\* No button read so far was anything but None.
OnlyNoneSoFar == led_reg = NoLed /\ button_press \in {NoPoll, "None"}

\* C18: the loop starts with counter 0, previous_button None and the flag
\* clear; while every button read has decoded to None it writes no LED and
\* reads no switch; the first read that is not None passes the gate and its
\* iteration makes the first LED write.
C18_FirstLedWrite ==
    /\ []((pc = "while" /\ button_press = NoPoll)
            => (m_couter = 0 /\ previous_button = "None" /\ run_demo /\ led_reg = NoLed))
    /\ []((pc \in InDemo /\ OnlyNoneSoFar)
            => /\ switch_state = NoSwitch
               /\ IoCount(io_log, "switches") = 0
               /\ IoCount(io_log, "leds") = 0
               /\ previous_button = "None"
               /\ m_couter = 0)
    /\ []((led_reg = NoLed /\ button_press \in (PushButton \ {"None"}))
            => pc \in {"gate", "dispatch", "load", "write"})
    /\ [][(led_reg = NoLed /\ led_reg' # NoLed)
            => (pc = "write" /\ button_press \in (PushButton \ {"None"}))]_vars

\* Button0 was read after None only and its increment has been written.
C18_Witness ==
    /\ pc = "assign"
    /\ previous_button = "None"
    /\ last_poll = "None"
    /\ button_press = "Button0"
    /\ m_couter = 1
    /\ led_reg = 1

====
